---- MODULE Spec2Model ----
(***************************************************************************)
(* Feature extractors of facerec (feature.py): Identity, PCA, LDA,         *)
(* Fisherfaces and SpatialHistogram.                                       *)
(*                                                                         *)
(* Floating-point arrays produced by LAPACK (svd, eig, inv) are modelled   *)
(* by their shapes in the life-cycle specification Spec; the decisions the *)
(* code takes on them (component resolution, slicing, class gathering,     *)
(* exceptions) are modelled exactly.  Exceptions are modelled by the name  *)
(* of the Python exception that leaves the call.                           *)
(***************************************************************************)
EXTENDS Integers, Sequences, FiniteSets, TLC

\* ------------------------------------------------------------------ bounds
MaxN == 3        \* longest sample list / label list handed to compute
MaxDim == 1      \* largest flattened sample dimension
MaxVal == 1      \* pixel values are 0..MaxVal
MaxLabel == 2    \* labels are 0..MaxLabel
MaxK == 3        \* configured num_components ranges over -1..MaxK

\* A field holding Python None is the empty set; a field holding v is {v}.
None == {}
Some(v) == {v}
The(o) == CHOOSE v \in o : TRUE

Min(a, b) == IF a < b THEN a ELSE b
Max(a, b) == IF a > b THEN a ELSE b

SeqsUpTo(S, n) == UNION {[1..m -> S] : m \in 0..n}
Samples == UNION {[1..d -> 0..MaxVal] : d \in 1..MaxDim}
SampleLists == SeqsUpTo(Samples, MaxN)
LabelLists == SeqsUpTo(0..MaxLabel, MaxN)
Configs == (-1)..MaxK

RECURSIVE SumF(_, _)
SumF(f, S) == IF S = {} THEN 0
              ELSE LET x == CHOOSE x \in S : TRUE IN f[x] + SumF(f, S \ {x})

RECURSIVE ProdF(_, _)
ProdF(f, S) == IF S = {} THEN 1
               ELSE LET x == CHOOSE x \in S : TRUE IN f[x] * ProdF(f, S \ {x})

\* Length of a[:k] for a sequence of length len (Python slice semantics).
SliceLen(len, k) == IF k >= 0 THEN Min(k, len) ELSE Max(len + k, 0)

\* ------------------------------------------------------------- collaborators
\* util.asColumnMatrix: a d x n matrix whose columns are the flattened samples;
\* fails when the samples do not all have the same shape.
asColumnMatrix(X) ==
    IF X = <<>> THEN [ok |-> TRUE, d |-> 0, n |-> 0, cols |-> <<>>]
    ELSE IF \E j \in 1..Len(X) : Len(X[j]) # Len(X[1]) THEN [ok |-> FALSE]
    ELSE [ok |-> TRUE, d |-> Len(X[1]), n |-> Len(X), cols |-> X]

\* numpy.linalg on an array with a zero dimension: raises LinAlgError on the
\* numpy releases that reject empty arrays, returns empty results on the others.
EmptyLinalg == {"LinAlgError", "ok"}

\* ---------------------------------------------------------------- instances
\* A fraction num/den (den = 0 only for the mean of no columns).
Frac(num, den) == [num |-> num, den |-> den]
\* The shape of an array whose entries come out of LAPACK.
Shape(rows, cols) == [rows |-> rows, cols |-> cols]

NewIdentity ==
    [kind |-> "Identity", num_components |-> None, mean |-> None,
     eigenvectors |-> None, eigenvalues |-> None, total_energy |-> None]

NewPCA(k) ==
    [kind |-> "PCA", num_components |-> Some(k), mean |-> None,
     eigenvectors |-> None, eigenvalues |-> None, total_energy |-> Some(Frac(0, 1))]

NewLDA(k) ==
    [kind |-> "LDA", num_components |-> Some(k), mean |-> None,
     eigenvectors |-> None, eigenvalues |-> None, total_energy |-> None]

NewFisherfaces(k) ==
    [kind |-> "Fisherfaces", num_components |-> Some(k), mean |-> None,
     eigenvectors |-> None, eigenvalues |-> None, total_energy |-> None]

\* The fields compute fits.
Fitted(self) ==
    [num_components |-> self.num_components, mean |-> self.mean,
     eigenvectors |-> self.eigenvectors, eigenvalues |-> self.eigenvalues,
     total_energy |-> self.total_energy]

\* What a call leaves behind: the instance, the exception that left the call
\* ("ok" when it returned), and the returned feature list as the number of
\* vectors and the length of each.
Result(self, outcome, count, len) ==
    [self |-> self, outcome |-> outcome, count |-> count, len |-> len]

\* ---------------------------------------------------------------------- PCA
\* X - self._mean with X of shape (m, 1): numpy broadcasting of (m,1) with (dm,1).
Broadcast(m, dm) ==
    IF m = dm THEN Some(m)
    ELSE IF m = 1 THEN Some(dm)
    ELSE IF dm = 1 THEN Some(m)
    ELSE None

\* np.dot(self._eigenvectors.T, X) for X of shape (rows, 1).
DotProject(self, rows) ==
    IF self.eigenvectors = None THEN [outcome |-> "AttributeError", len |-> 0]
    ELSE IF The(self.eigenvectors).rows # rows THEN [outcome |-> "ValueError", len |-> 0]
    ELSE [outcome |-> "ok", len |-> The(self.eigenvectors).cols]

PCA_project(self, m) ==
    IF self.mean = None THEN [outcome |-> "TypeError", len |-> 0]
    ELSE LET b == Broadcast(m, Len(The(self.mean).num))
         IN IF b = None THEN [outcome |-> "ValueError", len |-> 0]
            ELSE DotProject(self, The(b))

PCA_extract(self, x) == PCA_project(self, Len(x))

\* Row sums of the column matrix.
RowSums(XC) == [r \in 1..XC.d |-> SumF([j \in 1..XC.n |-> XC.cols[j][r]], 1..XC.n)]

\* sum of the eigenvalues s_i^2/n of the centred matrix = its squared
\* Frobenius norm over n = (n * sum x^2 - sum_r S_r^2) / n^2.
TotalEnergy(XC) ==
    IF XC.n = 0 \/ XC.d = 0 THEN Frac(0, 1)
    ELSE LET S == RowSums(XC)
             sq == SumF([j \in 1..XC.n |->
                          SumF([r \in 1..XC.d |-> XC.cols[j][r] * XC.cols[j][r]], 1..XC.d)],
                        1..XC.n)
             ss == SumF([r \in 1..XC.d |-> S[r] * S[r]], 1..XC.d)
         IN Frac(XC.n * sq - ss, XC.n * XC.n)

PCA_resolve(k, n) == IF k <= 0 \/ k > n - 1 THEN n - 1 ELSE k

PCA_compute(self, X, y) ==
    LET XC == asColumnMatrix(X) IN
    IF ~XC.ok THEN {Result(self, "ValueError", 0, 0)}
    ELSE
    LET nc == PCA_resolve(The(self.num_components), XC.n)
        \* lines 78-83: num_components and mean are assigned before the svd
        s1 == [self EXCEPT !.num_components = Some(nc),
                           !.mean = Some(Frac(RowSums(XC), XC.n))]
        r == Min(XC.d, XC.n)
        keep == SliceLen(r, nc)
        s2 == [s1 EXCEPT !.eigenvectors = Some(Shape(XC.d, keep)),
                         !.eigenvalues = Some(Shape(keep, 1)),
                         !.total_energy = Some(TotalEnergy(XC))]
        p == PCA_project(s2, XC.d)
        done == Result(s2, p.outcome, IF p.outcome = "ok" THEN XC.n ELSE 0, p.len)
    IN IF r = 0
       THEN {IF o = "ok" THEN Result(s2, "ok", 0, 0) ELSE Result(s1, o, 0, 0) : o \in EmptyLinalg}
       ELSE {done}

\* ---------------------------------------------------------------------- LDA
\* c = len(np.unique(y))
NumClasses(y) == Cardinality({y[j] : j \in 1..Len(y)})

\* np.where(y == i)[0], as 1-based column indices
ClassIndices(y, i) == {j \in 1..Len(y) : y[j] = i}

\* The classes the loop "for i in range(0, c)" gathers, in loop order.
Gathered(y) == [i \in 1..NumClasses(y) |-> ClassIndices(y, i - 1)]

\* XC[:, indices] raises IndexError when a gathered index is not a column of XC.
OutOfRange(y, n) ==
    LET c == NumClasses(y) IN \E j \in (n + 1)..Len(y) : y[j] < c

\* LDA_resolve without the clamp of too large a request to c - 1.
LDA_resolve_unclamped(k, c) == IF k <= 0 THEN c - 1 ELSE k

LDA_resolve(k, c) == IF k <= 0 THEN c - 1 ELSE IF k > c - 1 THEN c - 1 ELSE k

\* Determinant by expansion along the first row; M is an m x m matrix.
RECURSIVE Det(_, _)
Det(M, m) ==
    IF m = 0 THEN 1
    ELSE IF m = 1 THEN M[1][1]
    ELSE SumF([k \in 1..m |->
                  (IF k % 2 = 1 THEN 1 ELSE -1) * M[1][k] *
                  Det([r \in 1..(m - 1) |-> [q \in 1..(m - 1) |->
                          M[r + 1][IF q < k THEN q ELSE q + 1]]], m - 1)],
              1..m)

\* The within-class scatter Sw accumulated by the loop, times the square of the
\* product P of the class sizes (so that every entry is an integer):
\*   Sw = sum_i sum_{x in class i} (x - mean_i)(x - mean_i)^T,
\*   n_i (x - mean_i) = n_i x - S_i  with S_i the sum of the class.
ScaledSw(XC, y) ==
    LET G == Gathered(y)
        used == {i \in 1..Len(G) : G[i] # {}}
        size == [i \in used |-> Cardinality(G[i])]
        P == ProdF(size, used)
        S == [i \in used |-> [r \in 1..XC.d |->
                 SumF([j \in G[i] |-> XC.cols[j][r]], G[i])]]
        v == [i \in used |-> [j \in G[i] |-> [r \in 1..XC.d |->
                 size[i] * XC.cols[j][r] - S[i][r]]]]
        w == [i \in used |-> (P \div size[i]) * (P \div size[i])]
    IN [r \in 1..XC.d |-> [q \in 1..XC.d |->
           SumF([i \in used |->
                    w[i] * SumF([j \in G[i] |-> v[i][j][r] * v[i][j][q]], G[i])],
                used)]]

\* What np.linalg.inv(Sw) meets: "empty" (d = 0), "zero" (Sw is the zero matrix:
\* LinAlgError), "singular" (det Sw = 0 in exact arithmetic: the LU factorisation
\* in floating point may or may not hit a zero pivot), "regular".
SwStatus(XC, y) ==
    IF XC.d = 0 THEN "empty"
    ELSE LET Sw == ScaledSw(XC, y)
         IN IF \A r \in 1..XC.d : \A q \in 1..XC.d : Sw[r][q] = 0 THEN "zero"
            ELSE IF Det(Sw, XC.d) = 0 THEN "singular"
            ELSE "regular"

LDA_project(self, m) == DotProject(self, m)

\* LDA.compute after the column matrix is built: d x n is its shape and
\* statuses the conditions inv(Sw) can meet on it.
LDA_fit(self, d, n, y, statuses) ==
    LET c == NumClasses(y)
        nc == LDA_resolve(The(self.num_components), c)
        \* lines 162-165: num_components is assigned before the scatter loop
        s1 == [self EXCEPT !.num_components = Some(nc)]
        G == Gathered(y)
        \* an empty class has a NaN mean and makes Sb NaN: eig raises LinAlgError
        emptyClass == \E i \in 1..c : G[i] = {}
        keep == SliceLen(d, nc)
        s2 == [s1 EXCEPT !.eigenvalues = Some(Shape(keep, 1)),
                         !.eigenvectors = Some(Shape(d, keep))]
        p == LDA_project(s2, d)
        eig == IF emptyClass /\ d > 0 THEN Result(s1, "LinAlgError", 0, 0)
               ELSE Result(s2, p.outcome, IF p.outcome = "ok" THEN n ELSE 0, p.len)
        raised == Result(s1, "LinAlgError", 0, 0)
        inv(st) == IF st = "zero" THEN {raised}
                   ELSE IF st = "regular" THEN {eig}
                   ELSE {raised, eig}
    IN IF OutOfRange(y, n) THEN {Result(s1, "IndexError", 0, 0)}
       ELSE UNION {inv(st) : st \in statuses}

LDA_compute(self, X, y) ==
    LET XC == asColumnMatrix(X) IN
    IF ~XC.ok THEN {Result(self, "ValueError", 0, 0)}
    ELSE LDA_fit(self, XC.d, XC.n, y,
                 IF OutOfRange(y, XC.n) THEN {} ELSE {SwStatus(XC, y)})

\* -------------------------------------------------------------- Fisherfaces
\* operators.ChainOperator(pca, lda).compute(X, y): pca.compute(X, y), then
\* lda.compute on the features pca returned; returns lda's features.  The
\* features are floating-point projections: when some gathered class holds two
\* different samples the model does not decide whether their scatter is
\* singular, and both conditions are explored.
ChainOperator_compute(pca, lda, X, y) ==
    UNION {
      IF a.outcome # "ok" THEN {[pca |-> a.self, lda |-> lda, outcome |-> a.outcome,
                                 count |-> 0, len |-> 0]}
      ELSE LET G == Gathered(y)
               constant == \A i \in 1..Len(G) : \A j, k \in G[i] : X[j] = X[k]
               statuses == IF OutOfRange(y, a.count) THEN {}
                           ELSE IF a.len = 0 THEN {"empty"}
                           ELSE IF constant THEN {"zero"}
                           ELSE {"regular", "singular"}
           IN {[pca |-> a.self, lda |-> b.self, outcome |-> b.outcome,
                count |-> b.count, len |-> b.len] :
               b \in LDA_fit(lda, a.len, a.count, y, statuses)}
      : a \in PCA_compute(pca, X, y)}

Fisherfaces_project(self, m) == DotProject(self, m)

Fisherfaces_extract(self, x) == Fisherfaces_project(self, Len(x))

\* What Fisherfaces.compute leaves behind: the instance, how the call ended,
\* the number and length of the features returned, and the two stages the call
\* created (None when it failed before creating them).
FisherResult(self, outcome, count, len, pca, lda) ==
    [self |-> self, outcome |-> outcome, count |-> count, len |-> len,
     pca |-> pca, lda |-> lda]

Fisherfaces_compute(self, X, y) ==
    LET XC == asColumnMatrix(X) IN
    IF ~XC.ok THEN {FisherResult(self, "ValueError", 0, 0, None, None)}
    ELSE
    LET n == Len(y)
        c == NumClasses(y)
        fold(m) ==
            LET s2 == [self EXCEPT
                         !.eigenvalues = m.lda.eigenvalues,
                         !.num_components = m.lda.num_components,
                         !.eigenvectors = Some(Shape(The(m.pca.eigenvectors).rows,
                                                     The(m.lda.eigenvectors).cols))]
                p == Fisherfaces_project(s2, XC.d)
            IN FisherResult(s2, p.outcome, IF p.outcome = "ok" THEN XC.n ELSE 0, p.len,
                            Some(m.pca), Some(m.lda))
    IN {IF m.outcome # "ok"
        THEN FisherResult(self, m.outcome, 0, 0, Some(m.pca), Some(m.lda))
        ELSE fold(m) :
        m \in ChainOperator_compute(NewPCA(n - c), NewLDA(The(self.num_components)), X, y)}

\* ----------------------------------------------------------------- Identity
Identity_compute(self, X, y) ==
    {Result(self, "ok", Len(X), IF X = <<>> THEN 0 ELSE Len(X[1]))}

Identity_extract(self, x) == [outcome |-> "ok", len |-> Len(x)]

\* ----------------------------------------------------------- AbstractFeature
AbstractFeature_extract(self, x) == [outcome |-> "NotImplementedError", len |-> 0]

\* --------------------------------------------------------- SpatialHistogram
MaxH == 3             \* label maps have 1..MaxH rows
MaxW == 3             \* label maps have 1..MaxW columns
MaxGrid == 2          \* grid_rows and grid_cols range over 1..MaxGrid
MaxNeighbors == 1     \* the operator's neighbors ranges over 1..MaxNeighbors
MaxMarks == 1         \* a label map has at most MaxMarks non-zero labels
MaxImages == 1        \* compute is handed a list of 0..MaxImages images

\* The label maps of h rows and w columns over the labels 0..2^neighbors - 1
\* with at most k non-zero labels.
RECURSIVE MapsWith(_, _, _, _)
MapsWith(h, w, neighbors, k) ==
    IF k = 0 THEN {[r \in 1..h |-> [c \in 1..w |-> 0]]}
    ELSE LET P == MapsWith(h, w, neighbors, k - 1)
         IN P \cup {[m EXCEPT ![r][c] = v] :
                      m \in P, r \in 1..h, c \in 1..w, v \in 1..(2^neighbors - 1)}

LabelMaps(neighbors) ==
    UNION {MapsWith(h, w, neighbors, MaxMarks) : h \in 1..MaxH, w \in 1..MaxW}

\* The local pattern operator is opaque; an image is represented by the label
\* map the operator returns for it (same height and width, labels in
\* 0..2^neighbors - 1).
lbp_operator(X) == X

NewSpatialHistogram(neighbors, sz) ==
    [kind |-> "SpatialHistogram", neighbors |-> neighbors, sz |-> sz,
     X |-> None, y |-> None]

\* The part lo..lo+n-1 that the slice a:b selects of an axis of length len.
PySlice(len, a, b) ==
    LET lo == Min(a, len)
        hi == Min(b, len)
    IN [lo |-> lo, n |-> Max(hi - lo, 0)]

\* L[r0:r1, c0:c1] as a matrix.
SubRegion(L, r0, r1, c0, c1) ==
    LET rs == PySlice(Len(L), r0, r1)
        cs == PySlice(Len(L[1]), c0, c1)
    IN [r \in 1..rs.n |-> [c \in 1..cs.n |-> L[rs.lo + r][cs.lo + c]]]

\* CellSize rounding up, so that the cells cover the remainder rows and columns.
CellSize_ceil(len, grid) == (len + grid - 1) \div grid

\* int(np.floor(len/grid))
CellSize(len, grid) == len \div grid

\* A histogram that has no bins for a region without pixels.
SpatialHistogram_get_histogram_nobins(self, C) ==
    LET bins == 2^self.neighbors
        cells == (1..Len(C)) \X (1..(IF C = <<>> THEN 0 ELSE Len(C[1])))
    IN IF cells = {} THEN <<>>
       ELSE [b \in 1..bins |->
               Frac(Cardinality({rc \in cells : C[rc[1]][rc[2]] = b - 1}),
                    Cardinality(cells))]

\* np.histogram(C, bins = 2^neighbors, range = (0, 2^neighbors), normed):
\* one unit-width bin per label; bin b holds count/total, total the number of
\* labels in range, which for an empty C is 0/0 (NaN) in each of the bins.
SpatialHistogram_get_histogram(self, C) ==
    LET bins == 2^self.neighbors
        cells == {rc \in (1..Len(C)) \X (1..(IF C = <<>> THEN 0 ELSE Len(C[1]))) :
                     C[rc[1]][rc[2]] \in 0..(bins - 1)}
    IN [b \in 1..bins |->
          Frac(Cardinality({rc \in cells : C[rc[1]][rc[2]] = b - 1}),
               Cardinality(cells))]

RECURSIVE Extend(_, _, _, _)
\* E after the iterations of the two loops from cell number s on.
Extend(self, L, s, E) ==
    LET grid_rows == self.sz[1]
        grid_cols == self.sz[2]
        py == CellSize(Len(L), grid_rows)
        px == CellSize(Len(L[1]), grid_cols)
        row == s \div grid_cols
        col == s % grid_cols
        C == SubRegion(L, row * py, (row + 1) * py, col * px, (col + 1) * px)
    IN IF s >= grid_rows * grid_cols THEN E
       ELSE Extend(self, L, s + 1, E \o SpatialHistogram_get_histogram(self, C))

spatially_enhanced_histogram(self, X) == Extend(self, lbp_operator(X), 0, <<>>)

SpatialHistogram_extract(self, X) == spatially_enhanced_histogram(self, X)

SpatialHistogram_compute(self, X, y) ==
    [self |-> [self EXCEPT !.X = Some(X), !.y = Some(y)],
     features |-> [j \in 1..Len(X) |-> spatially_enhanced_histogram(self, X[j])]]

\* ------------------------------------------------- arrays with their entries
FoldN == 4            \* training sets of SpecFold hold 0..FoldN samples
FoldDim == 2          \* of flattened dimension 1..FoldDim
FoldLabel == 1        \* with labels 0..FoldLabel
MaxEntry == 1         \* eigenvector entries range over 0..MaxEntry

\* A rows x cols array; a[<<i, j>>] is its entry in row i and column j.
Matrix(rows, cols, a) == [rows |-> rows, cols |-> cols, a |-> a]

\* The decompositions are LAPACK's: the eigenvector arrays they return are
\* taken to be any arrays of the shape the code produces.
Matrices(shape) ==
    {Matrix(shape.rows, shape.cols, a) :
        a \in [(1..shape.rows) \X (1..shape.cols) -> 0..MaxEntry]}

\* x.reshape(-1, 1)
Column(x) == Matrix(Len(x), 1, [ij \in (1..Len(x)) \X {1} |-> x[ij[1]]])

\* A.T
Transpose(A) ==
    Matrix(A.cols, A.rows, [ij \in (1..A.cols) \X (1..A.rows) |-> A.a[<<ij[2], ij[1]>>]])

\* np.dot(A, B) of two arrays with A.cols = B.rows
np_dot(A, B) ==
    Matrix(A.rows, B.cols,
           [ij \in (1..A.rows) \X (1..B.cols) |->
              SumF([k \in 1..A.cols |-> A.a[<<ij[1], k>>] * B.a[<<k, ij[2]>>]], 1..A.cols)])

\* The length along one axis of A * B: an axis of length 1 is stretched to the
\* other's length.
Stretch(a, b) == IF a = 1 THEN b ELSE IF b = 1 THEN a ELSE Min(a, b)

\* A * B, entry by entry.
np_multiply(A, B) ==
    LET rows == Stretch(A.rows, B.rows)
        cols == Stretch(A.cols, B.cols)
    IN Matrix(rows, cols,
              [ij \in (1..rows) \X (1..cols) |->
                 A.a[<<Min(ij[1], A.rows), Min(ij[2], A.cols)>>]
                   * B.a[<<Min(ij[1], B.rows), Min(ij[2], B.cols)>>]])

\* An array of fractions with a common denominator.
Scaled(M, den) == [num |-> M, den |-> den]

\* PCA.project with entries: X - mean, then np.dot(eigenvectors.T, X); the
\* mean is the array of row sums mean.num over the sample count mean.den.
PCA_project_entries(mean, eigenvectors, X) ==
    LET centred == Matrix(X.num.rows, 1,
                          [ij \in (1..X.num.rows) \X {1} |->
                             X.num.a[ij] * mean.den - mean.num[ij[1]] * X.den])
    IN Scaled(np_dot(Transpose(eigenvectors), centred), X.den * mean.den)

\* LDA.project with entries
LDA_project_entries(eigenvectors, X) ==
    Scaled(np_dot(Transpose(eigenvectors), X.num), X.den)

\* Fisherfaces.project with entries
Fisherfaces_project_entries(eigenvectors, X) ==
    Scaled(np_dot(Transpose(eigenvectors), X.num), X.den)

\* The fold with * in the place of np.dot.
Fisherfaces_fold_elementwise(pca_eigenvectors, lda_eigenvectors) ==
    np_multiply(pca_eigenvectors, lda_eigenvectors)

\* self._eigenvectors = np.dot(pca.eigenvectors, lda.eigenvectors)
Fisherfaces_fold(pca_eigenvectors, lda_eigenvectors) ==
    np_dot(pca_eigenvectors, lda_eigenvectors)

\* ------------------------------------------------------------------- state
VARIABLES
    inst,   \* the extractor instance under test: its class and its fields
    cfg,    \* the num_components argument its constructor was given
    fit,    \* the latest compute call: what it was given and how it ended
    ret,    \* the latest call of any method: its name and how it ended
    num,    \* the entries of the arrays a Fisherfaces instance fitted (SpecFold)
    hist    \* a SpatialHistogram instance, its input and its output (SpecHist)

vars == <<inst, cfg, fit, ret, num, hist>>

\* fit.empty: the sample list was empty; fit.mismatch: the sample list and the
\* label list differed in length; fit.d: the flattened sample dimension;
\* fit.c: the class count the call computed (0 in the classes that compute
\* none); fit.skipped: the scatter loop gathered some sample into no class or
\* into several; fit.hollow: it gathered a class without a sample (both FALSE
\* in the classes without a scatter loop).
NoFit == [outcome |-> "none", empty |-> FALSE, mismatch |-> FALSE, d |-> 0, c |-> 0,
          skipped |-> FALSE, hollow |-> FALSE]
NoCall == [op |-> "new", outcome |-> "ok"]

Subspace == {"PCA", "LDA", "Fisherfaces"}

\* Dynamic dispatch of compute, extract and project on the class of self.
ComputeOf(self, X, y) ==
    CASE self.kind = "Identity" -> Identity_compute(self, X, y)
      [] self.kind = "PCA" -> PCA_compute(self, X, y)
      [] self.kind = "LDA" -> LDA_compute(self, X, y)
      [] self.kind = "Fisherfaces" -> Fisherfaces_compute(self, X, y)

ExtractOf(self, x) ==
    CASE self.kind = "Identity" -> Identity_extract(self, x)
      [] self.kind = "PCA" -> PCA_extract(self, x)
      [] self.kind = "LDA" -> AbstractFeature_extract(self, x)
      [] self.kind = "Fisherfaces" -> Fisherfaces_extract(self, x)

ProjectOf(self, x) ==
    CASE self.kind = "PCA" -> PCA_project(self, Len(x))
      [] self.kind = "LDA" -> LDA_project(self, Len(x))
      [] self.kind = "Fisherfaces" -> Fisherfaces_project(self, Len(x))

New(kind, k) ==
    CASE kind = "Identity" -> NewIdentity
      [] kind = "PCA" -> NewPCA(k)
      [] kind = "LDA" -> NewLDA(k)
      [] kind = "Fisherfaces" -> NewFisherfaces(k)

NoNum == [fitted |-> FALSE, projected |-> FALSE]
NoHist == [pc |-> "none"]

\* Identity, PCA and LDA instances; Fisherfaces instances are exercised with
\* the entries of their arrays in SpecFold.
Init ==
    /\ inst \in {NewIdentity} \cup {New(kind, k) : kind \in {"PCA", "LDA"}, k \in Configs}
    /\ cfg = inst.num_components
    /\ fit = NoFit
    /\ ret = NoCall
    /\ num = NoNum
    /\ hist = NoHist

\* The samples 1..n that the scatter loop gathers into exactly one class.
InClass(y, n) ==
    LET G == Gathered(y)
    IN {j \in 1..n : Cardinality({i \in 1..Len(G) : j \in G[i]}) = 1}

EmptyClasses(y) ==
    LET G == Gathered(y) IN {i \in 1..Len(G) : G[i] = {}}

Compute(X, y) ==
    \E r \in ComputeOf(inst, X, y) :
        LET XC == asColumnMatrix(X)
            \* the scatter loop runs in LDA.compute, once the matrix is built
            loop == inst.kind \in {"LDA", "Fisherfaces"} /\ XC.ok
        IN
        /\ inst' = r.self
        /\ fit' = [outcome |-> r.outcome,
                   empty |-> X = <<>>,
                   mismatch |-> Len(X) # Len(y),
                   d |-> IF XC.ok THEN XC.d ELSE 0,
                   c |-> IF loop THEN NumClasses(y) ELSE 0,
                   skipped |-> loop /\ InClass(y, Len(X)) # 1..Len(X),
                   hollow |-> loop /\ EmptyClasses(y) # {}]
        /\ ret' = [op |-> "compute", outcome |-> r.outcome]
        /\ UNCHANGED <<cfg, num, hist>>

Extract(x) ==
    /\ ret' = [op |-> "extract", outcome |-> ExtractOf(inst, x).outcome]
    /\ UNCHANGED <<inst, cfg, fit, num, hist>>

Project(x) ==
    /\ inst.kind \in Subspace
    /\ ret' = [op |-> "project", outcome |-> ProjectOf(inst, x).outcome]
    /\ UNCHANGED <<inst, cfg, fit, num, hist>>

Next ==
    \/ \E X \in SampleLists : \E y \in LabelLists : Compute(X, y)
    \/ \E x \in Samples : Extract(x)
    \/ \E x \in Samples : Project(x)

Spec == Init /\ [][Next]_vars

\* ------------------------------------------------- claims checked under Spec
\* No compute call has completed on the instance: eigenvectors is assigned by
\* the decomposition, after which compute cannot fail.
NeverFitted == inst.eigenvectors = None

\* C1 (as claimed): on PCA, LDA and Fisherfaces instances a call of extract or
\* project made while no compute has completed ends in the error NotFitted.
C1_NotFitted ==
    (inst.kind \in Subspace /\ ret.op \in {"extract", "project"} /\ NeverFitted)
        => ret.outcome = "NotFitted"

\* C2 (as claimed): compute ends in the error InvalidArgument whenever the
\* sample list is empty or its length differs from that of the label list.
C2_InvalidArgument ==
    (ret.op = "compute" /\ (fit.empty \/ fit.mismatch))
        => ret.outcome = "InvalidArgument"

\* C3 (as claimed): a compute call that fails leaves every fitted field of the
\* instance as it was before the call.
C3_AtomicOrUnmodified ==
    [][(ret'.op = "compute" /\ ret'.outcome # "ok") => Fitted(inst') = Fitted(inst)]_vars

\* C4 (as claimed): after any sequence of compute calls the fitted state is
\* that of a new instance of the same configuration after the last call alone;
\* stated for num_components: it is the configured value resolved against the
\* last training set (n is the number of columns the PCA mean averages).
C4_NoCarryOver ==
    (ret.op = "compute" /\ ret.outcome = "ok") =>
        /\ inst.kind = "PCA" =>
             The(inst.num_components) = PCA_resolve(The(cfg), The(inst.mean).den)
        /\ inst.kind = "LDA" =>
             The(inst.num_components) = LDA_resolve(The(cfg), fit.c)

\* C5: whatever num_components was requested and whatever was computed before,
\* an LDA compute call that got past the matrix builder (in particular one that
\* completed) leaves num_components <= c - 1, c the number of distinct labels
\* of that call.
C5_Clamped ==
    (inst.kind = "LDA" /\ fit.outcome \notin {"none", "ValueError"})
        => The(inst.num_components) <= fit.c - 1

\* C5 witness: a completed LDA compute with two classes on an instance that was
\* configured with more components than c - 1.
C5_Witness ==
    /\ inst.kind = "LDA" /\ ret.op = "compute" /\ ret.outcome = "ok"
    /\ fit.c = 2 /\ The(cfg) > fit.c - 1
    /\ The(inst.num_components) = 1

\* C6 (as claimed): after a completed PCA compute num_components never exceeds
\* d - 1, d the flattened sample dimension.
C6_RankBound ==
    (inst.kind = "PCA" /\ ret.op = "compute" /\ ret.outcome = "ok" /\ ~fit.empty)
        => The(inst.num_components) <= fit.d - 1

\* C10 (as claimed): for any labels, LDA.compute gathers every sample into
\* exactly one class and gathers no class without a sample.
C10_EveryClassGathered ==
    (inst.kind = "LDA" /\ ret.op = "compute" /\ ~fit.empty /\ ~fit.mismatch
       /\ ret.outcome # "ValueError")
        => (~fit.skipped /\ ~fit.hollow)

\* ------------------------------------------------------------------ SpecHist
\* A SpatialHistogram instance of some grid and operator, and an image; one
\* call of extract, or of compute on a list of copies of the image.
InitHist ==
    /\ inst = NewIdentity
    /\ cfg = None
    /\ fit = NoFit
    /\ ret = NoCall
    /\ num = NoNum
    /\ \E neighbors \in 1..MaxNeighbors, grid_rows \in 1..MaxGrid, grid_cols \in 1..MaxGrid :
         \E X \in LabelMaps(neighbors) :
            hist = [pc |-> "ready",
                    self |-> NewSpatialHistogram(neighbors, <<grid_rows, grid_cols>>),
                    X |-> X, out |-> <<>>]

HistExtract ==
    /\ hist.pc = "ready"
    /\ hist' = [hist EXCEPT !.pc = "extract",
                            !.out = <<SpatialHistogram_extract(hist.self, hist.X)>>]
    /\ UNCHANGED <<inst, cfg, fit, ret, num>>

HistCompute(m) ==
    /\ hist.pc = "ready"
    /\ LET r == SpatialHistogram_compute(hist.self, [j \in 1..m |-> hist.X],
                                         [j \in 1..m |-> 0])
       IN hist' = [hist EXCEPT !.pc = "compute", !.self = r.self, !.out = r.features]
    /\ UNCHANGED <<inst, cfg, fit, ret, num>>

NextHist == HistExtract \/ \E m \in 0..MaxImages : HistCompute(m)

SpecHist == InitHist /\ [][NextHist]_vars

HistDone == hist.pc \in {"extract", "compute"}

\* C8: every vector that extract returns, and every element of the list that
\* compute returns, has exactly grid_rows * grid_cols * 2^neighbors entries,
\* also when the label map has fewer rows or columns than the grid.
C8_OutputLength ==
    HistDone =>
        \A j \in 1..Len(hist.out) :
            Len(hist.out[j]) = hist.self.sz[1] * hist.self.sz[2] * 2^hist.self.neighbors

\* C8 witness: extract has returned for a label map with fewer rows than the
\* grid, so that every cell is empty and every bin is 0/0.
C8_Witness ==
    /\ hist.pc = "extract"
    /\ Len(hist.X) < hist.self.sz[1]
    /\ Len(hist.out) = 1
    /\ \A b \in 1..Len(hist.out[1]) : hist.out[1][b].den = 0

\* The pixels (r, c), counted from 0, of label map L that lie in cell number s
\* of the grid of cells of floor(height/grid_rows) rows and
\* floor(width/grid_cols) columns, the cells numbered row by row.
PixelsOfCell(L, grid_rows, grid_cols, s) ==
    LET py == Len(L) \div grid_rows
        px == Len(L[1]) \div grid_cols
    IN {rc \in (0..(Len(L) - 1)) \X (0..(Len(L[1]) - 1)) :
          /\ rc[1] < grid_rows * py
          /\ rc[2] < grid_cols * px
          /\ (rc[1] \div py) * grid_cols + (rc[2] \div px) = s}

\* C9: bin b of segment s of the output counts exactly the pixels with label b
\* that lie in cell s (so each pixel inside grid_rows*py by grid_cols*px is
\* counted in its cell alone and the remainder pixels in none), and the
\* segment is normalised by the number of pixels of that cell.
C9_FloorPartition ==
    HistDone =>
        \A j \in 1..Len(hist.out) :
            LET L == lbp_operator(hist.X)
                grid_rows == hist.self.sz[1]
                grid_cols == hist.self.sz[2]
                bins == 2^hist.self.neighbors
            IN /\ Len(hist.out[j]) = grid_rows * grid_cols * bins
               /\ \A s \in 0..(grid_rows * grid_cols - 1) : \A b \in 0..(bins - 1) :
                    LET P == PixelsOfCell(L, grid_rows, grid_cols, s)
                    IN hist.out[j][s * bins + b + 1] =
                          Frac(Cardinality({rc \in P : L[rc[1] + 1][rc[2] + 1] = b}),
                               Cardinality(P))

\* C9 witness: extract has returned for a label map whose last row is a
\* remainder row holding a non-zero label, which no segment counts.
C9_Witness ==
    /\ hist.pc = "extract"
    /\ Len(hist.X) % hist.self.sz[1] # 0
    /\ Len(hist.X) >= hist.self.sz[1]
    /\ \E c \in 1..Len(hist.X[1]) : hist.X[Len(hist.X)][c] # 0
    /\ \A s \in 0..(hist.self.sz[1] * hist.self.sz[2] - 1) :
          hist.out[1][s * 2^hist.self.neighbors + 2].num = 0

\* ------------------------------------------------------------------ SpecFold
\* A Fisherfaces instance with the entries of its arrays: one compute on a
\* training set of samples of one dimension with a label each, then project
\* on samples of that dimension.
FoldSamples(d) == [1..d -> 0..MaxVal]

TrainingSets ==
    UNION {[1..n -> FoldSamples(d)] \X [1..n -> 0..FoldLabel] :
             n \in 0..FoldN, d \in 1..FoldDim}

InitFold ==
    /\ inst \in {NewFisherfaces(k) : k \in Configs}
    /\ cfg = inst.num_components
    /\ fit = NoFit
    /\ ret = NoCall
    /\ num = NoNum
    /\ hist = NoHist

FoldCompute(X, y) ==
    /\ ~num.fitted
    /\ \E r \in Fisherfaces_compute(inst, X, y) :
         /\ inst' = r.self
         /\ ret' = [op |-> "compute", outcome |-> r.outcome]
         /\ IF r.outcome = "ok"
            THEN \E pca_eigenvectors \in Matrices(The(The(r.pca).eigenvectors)),
                    lda_eigenvectors \in Matrices(The(The(r.lda).eigenvectors)) :
                    num' = [fitted |-> TRUE, projected |-> FALSE,
                            pca |-> [mean |-> The(The(r.pca).mean),
                                     eigenvectors |-> pca_eigenvectors],
                            lda |-> [eigenvectors |-> lda_eigenvectors],
                            eigenvectors |-> Fisherfaces_fold(pca_eigenvectors,
                                                              lda_eigenvectors)]
            ELSE num' = num
    /\ UNCHANGED <<cfg, fit, hist>>

\* project(x) on the instance, and next to it x taken through the two stages
\* that compute fitted.
FoldProject(x) ==
    /\ num.fitted
    /\ LET X == Scaled(Column(x), 1)
       IN num' = [fitted |-> TRUE, projected |-> TRUE,
                  pca |-> num.pca, lda |-> num.lda, eigenvectors |-> num.eigenvectors,
                  x |-> x,
                  single |-> Fisherfaces_project_entries(num.eigenvectors, X),
                  chained |-> LDA_project_entries(num.lda.eigenvectors,
                                 PCA_project_entries(num.pca.mean,
                                                     num.pca.eigenvectors, X))]
    /\ ret' = [op |-> "project", outcome |-> "ok"]
    /\ UNCHANGED <<inst, cfg, fit, hist>>

NextFold ==
    \/ \E t \in TrainingSets : FoldCompute(t[1], t[2])
    \/ \E x \in FoldSamples(IF num.fitted THEN num.eigenvectors.rows ELSE 0) : FoldProject(x)

SpecFold == InitFold /\ [][NextFold]_vars

SameShape(A, B) == A.rows = B.rows /\ A.cols = B.cols

\* Two arrays of fractions are equal entry by entry.
SameEntries(A, B) ==
    /\ SameShape(A.num, B.num)
    /\ \A ij \in DOMAIN A.num.a : A.num.a[ij] * B.den = B.num.a[ij] * A.den

\* A + B for two arrays of fractions of one shape.
Plus(A, B) ==
    Scaled(Matrix(A.num.rows, A.num.cols,
                  [ij \in DOMAIN A.num.a |-> A.num.a[ij] * B.den + B.num.a[ij] * A.den]),
           A.den * B.den)

\* eigenvectors^T . mean of the fitted instance: the projection of the PCA mean.
ProjectedMean ==
    Scaled(np_dot(Transpose(num.eigenvectors),
                  Matrix(Len(num.pca.mean.num), 1,
                         [ij \in (1..Len(num.pca.mean.num)) \X {1} |->
                            num.pca.mean.num[ij[1]]])),
           num.pca.mean.den)

\* C7 (as claimed): Fisherfaces.project(x) equals LDA.project(PCA.project(x))
\* taken through the stages that compute fitted.
C7_FoldEqualsChain ==
    num.projected => SameEntries(num.single, num.chained)

\* C7 (amended): Fisherfaces.project(x) equals LDA.project(PCA.project(x)) plus
\* the projection eigenvectors^T . mean of the PCA mean.
C7_FoldEqualsChainPlusMean ==
    num.projected =>
        /\ SameShape(num.single.num, num.chained.num)
        /\ SameShape(num.single.num, ProjectedMean.num)
        /\ SameEntries(num.single, Plus(num.chained, ProjectedMean))

\* C7 witness: a projection through a fold of a 2 x 2 with a 2 x 1 array whose
\* projected mean is not zero, so that the one-stage and the two-stage results
\* differ.
C7_Witness ==
    /\ num.projected
    /\ num.pca.eigenvectors.cols = 2 /\ num.lda.eigenvectors.cols = 1
    /\ \E ij \in DOMAIN ProjectedMean.num.a : ProjectedMean.num.a[ij] # 0
    /\ ~SameEntries(num.single, num.chained)

====
